---- MODULE Spec2Model ----
(***************************************************************************)
(* A model of snmp-ifstats-mqtt: SNMPConnection.poll (snmp.py) turns the   *)
(* result of an SNMP walk into DeviceData snapshots queued at the          *)
(* MQTTPublisher (mqtt.py), whose publish() sends Home Assistant discovery *)
(* and state messages to the broker.                                       *)
(*                                                                         *)
(* Python values are modelled as follows.                                  *)
(*   str            a TLA+ string                                          *)
(*   int|str|float  a record [t, n, d, s]: t is "int" (n), "str" (s) or    *)
(*                  "float" (the quotient n/d)                             *)
(*   dict           insertion ordered: a sequence of [k, v] entries        *)
(*   exception      the outcome "error" of the action                      *)
(***************************************************************************)
EXTENDS Integers, Sequences, FiniteSets, TLC

VARIABLES
    now,            \* time.time() of the process, in seconds
    include,        \* include[c]: SNMPConnection.include of connection c
    exclude,        \* exclude[c]: SNMPConnection.exclude of connection c
    rate_cache,     \* rate_cache[c]: SNMPConnection.rate_cache
    started,        \* whether the MQTTPublisher has been constructed
    config,         \* the arguments MQTTPublisher is constructed with
    temp_id,        \* MQTTPublisher.temp_id
    client,         \* the calls made on mqtt_client so far by __init__
    queue,          \* MQTTPublisher.queue
    discovery_data, \* MQTTPublisher.discovery_data
    polls,          \* history: the number of poll() calls made so far
    faults,         \* history: the number of broker calls that have raised
    lastPoll,       \* history: lastPoll[c] is the latest poll() call of c
    prevPoll,       \* history: prevPoll[c] is the poll() call of c before it
    lastPub,        \* history: the latest publish() call
    prevPub,        \* history: the publish() call before it
    prevStart       \* history: the availability topic of the previous start

vars == <<now, include, exclude, rate_cache, started, config, temp_id, client,
          queue, discovery_data, polls, faults, lastPoll, prevPoll, lastPub,
          prevPub, prevStart>>

-----------------------------------------------------------------------------
(* Bounds of the model. *)

\* poll() is called at most MaxPolls times in a behaviour.
MaxPolls == 3

\* The publishing scenario makes at most MaxMainPolls of them.
MaxMainPolls == 2

\* At most MaxFaults calls of the broker client raise in a behaviour.
MaxFaults == 1

-----------------------------------------------------------------------------
(* Strings. *)

Upper == "ABCDEFGHIJKLMNOPQRSTUVWXYZ"
Lower == "abcdefghijklmnopqrstuvwxyz"
Digits == "0123456789"
HexDigits == "0123456789abcdef"

Char(s, i) == SubSeq(s, i, i)

IndexIn(alphabet, c) ==
    IF \E i \in 1..Len(alphabet) : Char(alphabet, i) = c
    THEN CHOOSE i \in 1..Len(alphabet) : Char(alphabet, i) = c
    ELSE 0

IsUpper(c) == IndexIn(Upper, c) > 0
IsLower(c) == IndexIn(Lower, c) > 0
IsDigit(c) == IndexIn(Digits, c) > 0

\* str.lower() of one character
LowerChar(c) == IF IsUpper(c) THEN Char(Lower, IndexIn(Upper, c)) ELSE c

\* ord(c), for the letters and digits of ASCII (the hardware addresses of the
\* model are made of these)
Ord(c) ==
    IF IsDigit(c) THEN 47 + IndexIn(Digits, c)
    ELSE IF IsUpper(c) THEN 64 + IndexIn(Upper, c)
    ELSE 96 + IndexIn(Lower, c)

EndsWith(s, x) ==
    /\ Len(s) >= Len(x)
    /\ SubSeq(s, Len(s) - Len(x) + 1, Len(s)) = x

StartsWith(s, x) ==
    /\ Len(s) >= Len(x)
    /\ SubSeq(s, 1, Len(x)) = x

RECURSIVE JoinStr(_, _)
\* sep.join(parts)
JoinStr(sep, parts) ==
    IF parts = <<>> THEN ""
    ELSE IF Len(parts) = 1 THEN parts[1]
    ELSE parts[1] \o sep \o JoinStr(sep, Tail(parts))

RECURSIVE NatStr(_)
\* the decimal digits of a natural number
NatStr(n) ==
    IF n < 10 THEN Char(Digits, n + 1)
    ELSE NatStr(n \div 10) \o Char(Digits, (n % 10) + 1)

\* str(n) of an int
IntStr(n) == IF n < 0 THEN "-" \o NatStr(0 - n) ELSE NatStr(n)

-----------------------------------------------------------------------------
(* snmp.py: the field codec. *)

HEX_BYTE_FIELDS == {"ifPhysAddress"}
INTEGER_FIELD_SUFFIXES ==
    {"Length", "Rate", "Delay", "Discards", "Errors", "Pkts", "QLen", "Speed",
     "Octets", "Atn", "SnrMgn", "Pwr", "UnknownProtos"}
INTEGER_FIELDS == {"ifIndex", "ifMtu"}
IGNORE_FIELDS == {"ifSpecific", "ifIndex", "ifType"}
HIDE_IF_EMPTY == {"ifSpeed", "ifLastChange", "ifPhysAddress"}

IntV(n) == [t |-> "int", n |-> n, d |-> 1, s |-> ""]
StrV(s) == [t |-> "str", n |-> 0, d |-> 1, s |-> s]
FloatV(n, d) == [t |-> "float", n |-> n, d |-> d, s |-> ""]

\* The first pass of camel_to_snake, re.sub("(.)([A-Z][a-z]+)", r"\1_\2", name),
\* scanning from position i: the end of the match that starts at i, or 0.
MatchWord(s, i) ==
    IF /\ i + 2 <= Len(s)
       /\ IsUpper(Char(s, i + 1))
       /\ IsLower(Char(s, i + 2))
    THEN CHOOSE e \in (i + 2)..Len(s) :
            /\ \A j \in (i + 2)..e : IsLower(Char(s, j))
            /\ (e = Len(s) \/ ~IsLower(Char(s, e + 1)))
    ELSE 0

RECURSIVE SubWords(_, _)
SubWords(s, i) ==
    IF i > Len(s) THEN ""
    ELSE LET e == MatchWord(s, i)
         IN  IF e > 0
             THEN Char(s, i) \o "_" \o SubSeq(s, i + 1, e) \o SubWords(s, e + 1)
             ELSE Char(s, i) \o SubWords(s, i + 1)

RECURSIVE SubHumps(_, _)
\* The second pass, re.sub("([a-z0-9])([A-Z])", r"\1_\2", name), from position i.
SubHumps(s, i) ==
    IF i > Len(s) THEN ""
    ELSE IF /\ i + 1 <= Len(s)
            /\ (IsLower(Char(s, i)) \/ IsDigit(Char(s, i)))
            /\ IsUpper(Char(s, i + 1))
         THEN Char(s, i) \o "_" \o Char(s, i + 1) \o SubHumps(s, i + 2)
         ELSE Char(s, i) \o SubHumps(s, i + 1)

RECURSIVE LowerStr(_)
LowerStr(s) ==
    IF s = "" THEN "" ELSE LowerChar(Char(s, 1)) \o LowerStr(SubSeq(s, 2, Len(s)))

camel_to_snake(name) == LowerStr(SubHumps(SubWords(name, 1), 1))

\* The field names of the model: the columns the walks return (see Columns)
\* and the names poll() derives from them.
FieldNames ==
    {"ifIndex", "ifDescr", "ifSpeed", "ifPhysAddress", "ifInOctets", "adslAtucCurrAtn",
     "ifInOctetsPS", "ifMtu", "ifOperStatus", "ifInUcastPkts", "ifInDiscards",
     "ifInErrors", "adslAturCurrSnrMgn", "adslAtucCurrOutputPwr",
     "adslAtucChanCurrTxRate"}

\* camel_to_snake on the field names, computed once
SnakeCase == [name \in FieldNames |-> camel_to_snake(name)]

\* Whether int(value) succeeds: an optional sign and at least one digit.
IsIntLiteral(s) ==
    LET body == IF Len(s) > 0 /\ Char(s, 1) \in {"-", "+"}
                THEN SubSeq(s, 2, Len(s)) ELSE s
    IN  /\ Len(body) > 0
        /\ \A i \in 1..Len(body) : IsDigit(Char(body, i))

RECURSIVE ParseNat(_)
ParseNat(s) ==
    IF s = "" THEN 0
    ELSE 10 * ParseNat(SubSeq(s, 1, Len(s) - 1)) + (IndexIn(Digits, Char(s, Len(s))) - 1)

\* int(value), for a value with IsIntLiteral(value)
ParseInt(s) ==
    IF Char(s, 1) = "-" THEN 0 - ParseNat(SubSeq(s, 2, Len(s)))
    ELSE IF Char(s, 1) = "+" THEN ParseNat(SubSeq(s, 2, Len(s)))
    ELSE ParseNat(s)

\* bytes([b]).hex()
HexByte(b) == Char(HexDigits, (b \div 16) + 1) \o Char(HexDigits, (b % 16) + 1)

RECURSIVE HexStr(_)
\* bytearray(ord(x) for x in value).hex()
HexStr(s) ==
    IF s = "" THEN "" ELSE HexByte(Ord(Char(s, 1))) \o HexStr(SubSeq(s, 2, Len(s)))

\* Whether the field is parsed as an integer by cast_value.
IsIntegerField(name) ==
    /\ name \notin HEX_BYTE_FIELDS
    /\ \/ \E x \in INTEGER_FIELD_SUFFIXES : EndsWith(name, x)
       \/ name \in INTEGER_FIELDS

\* Whether cast_value(name, value) raises ValueError.
CastFails(name, value) == IsIntegerField(name) /\ ~IsIntLiteral(value)

\* cast_value(name, value), when it does not raise. The values of the model
\* carry no trailing NUL characters, so rstrip("\x00") leaves them as they are.
cast_value(name, value) ==
    IF name \in HEX_BYTE_FIELDS THEN StrV(HexStr(value))
    ELSE IF IsIntegerField(name) THEN IntV(ParseInt(value))
    ELSE StrV(value)

-----------------------------------------------------------------------------
(* Insertion ordered dicts: sequences of entries [k, v] with distinct keys. *)

OdHas(od, key) == \E i \in 1..Len(od) : od[i].k = key

OdGet(od, key) == od[CHOOSE i \in 1..Len(od) : od[i].k = key].v

\* od[key] = value: a key already present keeps its position.
OdPut(od, key, value) ==
    IF OdHas(od, key)
    THEN [i \in 1..Len(od) |-> IF od[i].k = key THEN [k |-> key, v |-> value] ELSE od[i]]
    ELSE Append(od, [k |-> key, v |-> value])

OdKeys(od) == {od[i].k : i \in 1..Len(od)}

-----------------------------------------------------------------------------
(* snmp.py: SNMPConnection. *)

\* The hosts of the configured connections.
Conns == {"router1", "router2"}

\* sha256(host.encode(errors="replace")).hexdigest()[:32] of the hosts of Conns
id_base(host) ==
    IF host = "router1" THEN "afede289cb603d8344c943cc419938e1"
    ELSE "88943a7676023323ef39aa39f24166d2"

None == "None"

\* bool(x) of an optional string
Truthy(x) == x # None /\ x # ""

DataItem(name, value, uom) == [name |-> name, value |-> value, unit_of_measurement |-> uom]

DeviceData(name, unique_name, present, items) ==
    [name |-> name, unique_name |-> unique_name, present |-> present, items |-> items]

DataPoint(time, data) == [time |-> time, data |-> data]

RECURSIVE Group(_, _)
\* The first loop of poll(): the variables of the walk, grouped by oid_index;
\* `information` once the first i variables have been seen.
Group(walk, i) ==
    IF i = 0 THEN <<>>
    ELSE LET information == Group(walk, i - 1)
             value == walk[i]
             inf == IF OdHas(information, value.oid_index)
                    THEN OdGet(information, value.oid_index) ELSE <<>>
         IN  OdPut(information, value.oid_index, OdPut(inf, value.oid, value))

\* Dropped with the include list winning over the exclude list: a listed name
\* is kept even when it is excluded.
DroppedIncludeWins(inf, inc, exc) ==
    \/ ~OdHas(inf, "ifDescr")
    \/ OdGet(inf, "ifDescr").snmp_type # "OCTETSTR"
    \/ OdGet(inf, "ifDescr").value = ""
    \/ ~( \/ OdGet(inf, "ifDescr").value \in inc
          \/ (inc = {} /\ OdGet(inf, "ifDescr").value \notin exc) )

\* Dropped without the include list.
DroppedNoInclude(inf, inc, exc) ==
    \/ ~OdHas(inf, "ifDescr")
    \/ OdGet(inf, "ifDescr").snmp_type # "OCTETSTR"
    \/ OdGet(inf, "ifDescr").value = ""
    \/ OdGet(inf, "ifDescr").value \in exc

\* The condition of the second loop of poll(): whether information[k] is deleted.
Dropped(inf, inc, exc) ==
    \/ ~OdHas(inf, "ifDescr")
    \/ OdGet(inf, "ifDescr").snmp_type # "OCTETSTR"
    \/ OdGet(inf, "ifDescr").value = ""
    \/ ~( /\ (inc = {} \/ OdGet(inf, "ifDescr").value \in inc)
          /\ OdGet(inf, "ifDescr").value \notin exc )

\* `information` after the second loop
Filtered(information, inc, exc) ==
    SelectSeq(information, LAMBDA e : ~Dropped(e.v, inc, exc))

\* {k: cast_value(k, v.value) for (k, v) in inf.items()}
CastAll(inf) == [i \in 1..Len(inf) |-> [k |-> inf[i].k, v |-> cast_value(inf[i].k, inf[i].v.value)]]

RECURSIVE InformationMapFirstWins(_, _)
\* InformationMap keeping the first record of a name instead of the last.
InformationMapFirstWins(information, i) ==
    IF i = 0 THEN <<>>
    ELSE LET before == InformationMapFirstWins(information, i - 1)
             name == OdGet(information[i].v, "ifDescr").value
         IN  IF OdHas(before, name) THEN before
             ELSE OdPut(before, name, CastAll(information[i].v))

RECURSIVE InformationMap(_, _)
\* information_map, built from the first i entries of the filtered information
InformationMap(information, i) ==
    IF i = 0 THEN <<>>
    ELSE OdPut(InformationMap(information, i - 1),
               OdGet(information[i].v, "ifDescr").value, CastAll(information[i].v))

\* Whether building information_map raises: some cast_value does.
MapFails(information) ==
    \E i \in 1..Len(information) : \E j \in 1..Len(information[i].v) :
        CastFails(information[i].v[j].k, information[i].v[j].v.value)

\* IdName with a fallback that leaves the name out.
IdNameNoName(params) ==
    IF OdHas(params, "ifPhysAddress") /\ OdGet(params, "ifPhysAddress").s # ""
    THEN OdGet(params, "ifPhysAddress").s
    ELSE "_"

\* IdName from the name alone, whatever the hardware address.
IdNameByName(params) == "_" \o OdGet(params, "ifDescr").s

\* id_names[k], from params = information_map[k]
IdName(params) ==
    IF OdHas(params, "ifPhysAddress") /\ OdGet(params, "ifPhysAddress").s # ""
    THEN OdGet(params, "ifPhysAddress").s
    ELSE "_" \o OdGet(params, "ifDescr").s

\* Uom with one unit for the three signal fields.
UomSignal(key) ==
    IF EndsWith(key, "Octets") \/ EndsWith(key, "Mtu") THEN "bytes"
    ELSE IF EndsWith(key, "Atn") \/ EndsWith(key, "SnrMgn") \/ EndsWith(key, "Pwr")
         THEN "dBm"
    ELSE IF EndsWith(key, "Pkts") THEN "p"
    ELSE IF EndsWith(key, "Discards") \/ EndsWith(key, "Errors") THEN "count"
    ELSE IF StartsWith(key, "adsl") /\ EndsWith(key, "Rate") THEN "b/s"
    ELSE IF EndsWith(key, "Speed") THEN "b/s"
    ELSE None

\* The unit of measurement poll() assigns to the field `key`.
Uom(key) ==
    IF EndsWith(key, "Octets") \/ EndsWith(key, "Mtu") THEN "bytes"
    ELSE IF EndsWith(key, "Atn") \/ EndsWith(key, "SnrMgn") THEN "dB"
    ELSE IF EndsWith(key, "Pwr") THEN "dBm"
    ELSE IF EndsWith(key, "Pkts") THEN "p"
    ELSE IF EndsWith(key, "Discards") \/ EndsWith(key, "Errors") THEN "count"
    ELSE IF StartsWith(key, "adsl") /\ EndsWith(key, "Rate") THEN "b/s"
    ELSE IF EndsWith(key, "Speed") THEN "b/s"
    ELSE None

\* The value poll() publishes for the field: value /= 10.0 in the dB and dBm
\* branches (the fields of these branches are integers after cast_value).
Scaled(key, value) ==
    IF ~(EndsWith(key, "Octets") \/ EndsWith(key, "Mtu"))
       /\ (EndsWith(key, "Atn") \/ EndsWith(key, "SnrMgn") \/ EndsWith(key, "Pwr"))
    THEN FloatV(value.n, 10)
    ELSE value

\* Whether the field is skipped by the inner loop of poll().
Skipped(key, value) ==
    \/ key \in IGNORE_FIELDS
    \/ /\ key \in HIDE_IF_EMPTY
       /\ \/ (value.t = "int" /\ value.n = 0)
          \/ (value.t = "str" /\ value.s \in {"0", ""})

\* RateItems without the test of the counter delta: a counter that went back
\* yields a negative rate.
RateItemsSigned(cache, name, key, value, now_) ==
    LET lookup_key == <<name, key>>
        publish_key == key \o "PS"
    IN  IF lookup_key \in DOMAIN cache
        THEN LET old_val == cache[lookup_key]
                 delta == value.n - old_val.data
             IN  IF old_val.time < now_
                 THEN <<DataItem(SnakeCase[publish_key],
                                 FloatV(delta, now_ - old_val.time), "B/s")>>
                 ELSE <<DataItem(SnakeCase[publish_key], StrV(""), "B/s")>>
        ELSE <<>>

\* The derived rate items of an Octets field: none when the cache has no entry.
RateItems(cache, name, key, value, now_) ==
    LET lookup_key == <<name, key>>
        publish_key == key \o "PS"
    IN  IF lookup_key \in DOMAIN cache
        THEN LET old_val == cache[lookup_key]
                 delta == value.n - old_val.data
             IN  IF delta >= 0 /\ old_val.time < now_
                 THEN <<DataItem(SnakeCase[publish_key],
                                 FloatV(delta, now_ - old_val.time), "B/s")>>
                 ELSE <<DataItem(SnakeCase[publish_key], StrV(""), "B/s")>>
        ELSE <<>>

RECURSIVE DataItems(_, _, _, _, _)
\* data_items after the first i fields of params
DataItems(cache, name, params, now_, i) ==
    IF i = 0 THEN <<>>
    ELSE LET key == params[i].k
             value == params[i].v
             before == DataItems(cache, name, params, now_, i - 1)
         IN  IF Skipped(key, value) THEN before
             ELSE before
                  \o <<DataItem(SnakeCase[key], Scaled(key, value), Uom(key))>>
                  \o (IF EndsWith(key, "Octets")
                      THEN RateItems(cache, name, key, value, now_) ELSE <<>>)

\* The snapshot poll() queues for one entry of information_map.
Snapshot(host, cache, name, params, now_) ==
    DeviceData(name, id_base(host) \o "-" \o IdName(params), TRUE,
               DataItems(cache, name, params, now_, Len(params)))

\* The positions <<i, j>> of the fields of information_map
FieldPositions(information_map) ==
    UNION {{<<i, j>> : j \in 1..Len(information_map[i].v)} : i \in 1..Len(information_map)}

\* new_rates at the end of poll(): an entry for every Octets field that the
\* inner loop did not skip
NewRates(information_map, now_) ==
    LET name(p) == information_map[p[1]].k
        key(p) == information_map[p[1]].v[p[2]].k
        value(p) == information_map[p[1]].v[p[2]].v
        seen == {p \in FieldPositions(information_map) :
                    ~Skipped(key(p), value(p)) /\ EndsWith(key(p), "Octets")}
    IN  [lookup_key \in {<<name(p), key(p)>> : p \in seen} |->
            LET p == CHOOSE q \in seen : <<name(q), key(q)>> = lookup_key
            IN  DataPoint(now_, value(p).n)]

\* PollCall with the new rates written into the old cache instead of replacing
\* it: the entries of interfaces that disappeared stay.
PollCallMerge(host, walk, now_) ==
    LET information == Filtered(Group(walk, Len(walk)), include[host], exclude[host])
        information_map == InformationMap(information, Len(information))
        cache == rate_cache[host]
        new_rates == NewRates(information_map, now_)
    IN  IF MapFails(information)
        THEN [outcome |-> "error", kept |-> [i \in 1..Len(information) |-> information[i].k],
              snapshots |-> <<>>, rates |-> cache]
        ELSE [outcome |-> "ok", kept |-> [i \in 1..Len(information) |-> information[i].k],
              snapshots |-> [i \in 1..Len(information_map) |->
                                Snapshot(host, cache, information_map[i].k,
                                         information_map[i].v, now_)],
              rates |-> [k \in DOMAIN cache \cup DOMAIN new_rates |->
                            IF k \in DOMAIN new_rates THEN new_rates[k] ELSE cache[k]]]

\* PollCall with new_rates assigned before the fields are cast: a call that
\* raises has emptied the cache.
PollCallEarlyRates(host, walk, now_) ==
    LET information == Filtered(Group(walk, Len(walk)), include[host], exclude[host])
        information_map == InformationMap(information, Len(information))
        cache == rate_cache[host]
    IN  IF MapFails(information)
        THEN [outcome |-> "error", kept |-> [i \in 1..Len(information) |-> information[i].k],
              snapshots |-> <<>>, rates |-> <<>>]
        ELSE [outcome |-> "ok", kept |-> [i \in 1..Len(information) |-> information[i].k],
              snapshots |-> [i \in 1..Len(information_map) |->
                                Snapshot(host, cache, information_map[i].k,
                                         information_map[i].v, now_)],
              rates |-> NewRates(information_map, now_)]

\* What one call of poll() on the connection to `host` does with the result
\* `walk` of the two walks at time now_: the snapshots it queues and the new
\* rate cache, or outcome "error" when cast_value raises (nothing is changed
\* before that point).
PollCall(host, walk, now_) ==
    LET information == Filtered(Group(walk, Len(walk)), include[host], exclude[host])
        information_map == InformationMap(information, Len(information))
        cache == rate_cache[host]
    IN  IF MapFails(information)
        THEN [outcome |-> "error", kept |-> [i \in 1..Len(information) |-> information[i].k],
              snapshots |-> <<>>, rates |-> cache]
        ELSE [outcome |-> "ok", kept |-> [i \in 1..Len(information) |-> information[i].k],
              snapshots |-> [i \in 1..Len(information_map) |->
                                Snapshot(host, cache, information_map[i].k,
                                         information_map[i].v, now_)],
              rates |-> NewRates(information_map, now_)]

\* The record of no call, the initial value of the history variables.
NoCall == [called |-> FALSE]

\* Poll with one rate cache for all the connections.
PollSharedCache(c, walk, dt) ==
    LET r == PollCall(c, walk, now + dt)
    IN  /\ started
        /\ polls < MaxPolls
        /\ polls' = polls + 1
        /\ now' = now + dt
        /\ queue' = queue \o r.snapshots
        /\ rate_cache' = [d \in Conns |-> r.rates]
        /\ UNCHANGED <<include, exclude, started, config, temp_id, client,
                       discovery_data, faults, lastPub, prevPub, prevStart>>

\* SNMPConnection.poll() of the connection to host c, dt seconds after the
\* latest action, the device answering the walks with `walk`.
Poll(c, walk, dt) ==
    LET r == PollCall(c, walk, now + dt)
    IN  /\ started
        /\ polls < MaxPolls
        /\ polls' = polls + 1
        /\ now' = now + dt
        /\ queue' = queue \o r.snapshots
        /\ rate_cache' = [rate_cache EXCEPT ![c] = r.rates]
        /\ UNCHANGED <<include, exclude, started, config, temp_id, client,
                       discovery_data, faults, lastPub, prevPub, prevStart>>

\* The history of the poll() calls: the call Poll(c, walk, dt) is recorded.
LogPoll(c, walk, dt) ==
    LET r == PollCall(c, walk, now + dt)
    IN  /\ prevPoll' = [prevPoll EXCEPT ![c] = lastPoll[c]]
        /\ lastPoll' = [lastPoll EXCEPT ![c] =
                [called |-> TRUE, walk |-> walk, now |-> now + dt,
                 cache |-> rate_cache[c], outcome |-> r.outcome, kept |-> r.kept,
                 snapshots |-> r.snapshots, rates |-> r.rates]]

-----------------------------------------------------------------------------
(* mqtt.py: MQTTPublisher. *)

Message(topic, payload, retain) == [topic |-> topic, payload |-> payload, retain |-> retain]

\* MQTTPublisher.availability_topic
availability_topic == config.discovery_prefix \o "/_meta/" \o temp_id \o "/status"

\* The values str(uuid.uuid4()) may return.
UUIDs == {"0b0e7a5c-3f0a-4c61-9a55-6f2d3c1e8a01", "c9d1f6b2-7e44-4b8e-8d20-15a9e0b7f3c2"}

\* InitCalls with a will that is not retained.
InitCallsPlainWill(topic) ==
    <<[call |-> "will_set", topic |-> topic, payload |-> "offline", retain |-> FALSE]>>
    \o (IF config.username # "" /\ config.password # ""
        THEN <<[call |-> "username_pw_set", topic |-> "", payload |-> "", retain |-> FALSE]>>
        ELSE <<>>)
    \o <<[call |-> "connect", topic |-> "", payload |-> "", retain |-> FALSE],
         [call |-> "publish", topic |-> topic, payload |-> "online", retain |-> TRUE]>>

\* The calls __init__ makes on mqtt_client, in order.
InitCalls(topic) ==
    <<[call |-> "will_set", topic |-> topic, payload |-> "offline", retain |-> TRUE]>>
    \o (IF config.username # "" /\ config.password # ""
        THEN <<[call |-> "username_pw_set", topic |-> "", payload |-> "", retain |-> FALSE]>>
        ELSE <<>>)
    \o <<[call |-> "connect", topic |-> "", payload |-> "", retain |-> FALSE],
         [call |-> "publish", topic |-> topic, payload |-> "online", retain |-> TRUE]>>

NoRates == [c \in Conns |-> <<>>]
NoPolls == [c \in Conns |-> NoCall]

\* main() up to its loop: MQTTPublisher.__init__, then SNMPConnection.__init__
\* of every connection. uuid is the value uuid.uuid4() returns.
Start(uuid) ==
    /\ ~started
    /\ started' = TRUE
    /\ temp_id' = IF Truthy(config.id_hash) THEN config.id_hash ELSE uuid
    /\ client' = InitCalls(config.discovery_prefix \o "/_meta/" \o temp_id' \o "/status")
    /\ queue' = <<>>
    /\ discovery_data' = <<>>
    /\ rate_cache' = NoRates
    /\ polls' = 0
    /\ faults' = 0
    /\ lastPoll' = NoPolls
    /\ prevPoll' = NoPolls
    /\ lastPub' = NoCall
    /\ prevPub' = NoCall
    /\ UNCHANGED <<now, include, exclude, config, prevStart>>

\* The process ends; the state of its objects is lost.
Stop ==
    /\ started
    /\ started' = FALSE
    /\ prevStart' = availability_topic
    /\ temp_id' = None
    /\ client' = <<>>
    /\ UNCHANGED <<now, include, exclude, config, rate_cache, queue, discovery_data,
                   polls, faults, lastPoll, prevPoll, lastPub, prevPub>>

\* The number of significant digits repr() of a float gives at most here.
FloatDigits == 16

RECURSIVE FracDigits(_, _, _)
\* The decimal digits of r/d after the point (r < d), at most `left` of them.
FracDigits(r, d, left) ==
    IF r = 0 \/ left = 0 THEN ""
    ELSE Char(Digits, ((10 * r) \div d) + 1) \o FracDigits((10 * r) % d, d, left - 1)

\* str(n / d) of a float, d > 0: the integer part, the point and the decimal
\* expansion of the quotient (all of it when it ends within FloatDigits digits).
FloatStr(n, d) ==
    LET a == IF n < 0 THEN 0 - n ELSE n
        ip == NatStr(a \div d)
        frac == FracDigits(a % d, d, FloatDigits - (IF a \div d = 0 THEN 0 ELSE Len(ip)))
    IN  (IF n < 0 THEN "-" ELSE "") \o ip \o "." \o (IF frac = "" THEN "0" ELSE frac)

\* str(value) of the value of a DataItem
PyStr(value) ==
    IF value.t = "int" THEN IntStr(value.n)
    ELSE IF value.t = "float" THEN FloatStr(value.n, value.d)
    ELSE value.s

\* json.dumps(discovery_data): the keys in insertion order, the separators
\* ", " and ": ". The strings of the model need no escaping.
JsonDumps(d) ==
    "{\"~\": \"" \o d.tilde
    \o "\", \"device\": {\"name\": \"" \o d.device.name
    \o "\", \"identifiers\": \"" \o d.device.identifiers
    \o "\"}, \"name\": \"" \o d.name
    \o "\", \"unique_id\": \"" \o d.unique_id
    \o "\", \"availability\": [{\"topic\": \"" \o d.availability[1].topic
    \o "\", \"payload_available\": \"" \o d.availability[1].payload_available
    \o "\", \"payload_not_available\": \"" \o d.availability[1].payload_not_available
    \o "\"}], \"state_topic\": \"" \o d.state_topic
    \o (IF "unit_of_measurement" \in DOMAIN d
        THEN "\", \"unit_of_measurement\": \"" \o d.unit_of_measurement
        ELSE "")
    \o "\"}"

\* basename of the item edata of the snapshot ddata
Basename(ddata, edata) ==
    JoinStr("/", <<config.discovery_prefix, "sensor", "snmp_ifstats",
                   ddata.unique_name \o "-" \o edata.name>>)

\* discovery_data of the item edata of the snapshot ddata (the dict; the key
\* "~" is the field tilde)
DiscoveryPayload(ddata, edata) ==
    LET base == [tilde |-> Basename(ddata, edata),
                 device |-> [name |-> ddata.name, identifiers |-> ddata.unique_name],
                 name |-> ddata.name \o " " \o edata.name,
                 unique_id |-> ddata.unique_name \o "-" \o edata.name,
                 availability |-> <<[topic |-> availability_topic,
                                     payload_available |-> "online",
                                     payload_not_available |-> "offline"]>>,
                 state_topic |-> "~/state"]
    IN  IF Truthy(edata.unit_of_measurement)
        THEN [k \in DOMAIN base \cup {"unit_of_measurement"} |->
                IF k = "unit_of_measurement" THEN edata.unit_of_measurement ELSE base[k]]
        ELSE base

\* The items of the queue in the order publish() visits them: <<q, e>> is item
\* e of snapshot q.
RECURSIVE Visits(_, _)
Visits(q, i) ==
    IF i = 0 THEN <<>>
    ELSE Visits(q, i - 1) \o [e \in 1..Len(q[i].items) |-> <<i, e>>]

\* Record forgetting what was recorded for the other basenames.
RecordAlone(disc, basename, payload) == [b \in {basename} |-> payload]

\* self.discovery_data[basename] = discovery_data
Record(disc, basename, payload) ==
    [b \in DOMAIN disc \cup {basename} |-> IF b = basename THEN payload ELSE disc[b]]

\* What the inner loop of publish() computes for the item edata of the
\* snapshot ddata before it calls the broker client: basename, discovery_data,
\* and the two payloads json.dumps(discovery_data) and str(edata.value).
Prepared(ddata, edata) ==
    LET discovery == DiscoveryPayload(ddata, edata)
    IN  [basename |-> Basename(ddata, edata), discovery |-> discovery,
         config_payload |-> JsonDumps(discovery),
         state_payload |-> PyStr(edata.value)]

\* Prepared for every visit of the queue q, in order.
PreparedItems(q) ==
    LET visits == Visits(q, Len(q))
    IN  [i \in 1..Len(visits) |-> Prepared(q[visits[i][1]], q[visits[i][1]].items[visits[i][2]])]

\* The state st of a publish() call: st.disc is self.discovery_data, st.msgs
\* the messages the broker client has accepted, st.src the visit each came
\* from (its number), st.calls the number of mqtt_client.publish calls made,
\* st.raised whether one of them has raised. The call number failAt raises
\* (none does when failAt = 0).

\* Differs without the comparison: every item is published anew.
DiffersAlways(disc, basename, discovery) == TRUE

\* Differs with the comparison of the payloads left out: a payload that
\* changed is not sent again.
DiffersUnknownOnly(disc, basename, discovery) == basename \notin DOMAIN disc

\* The condition under which publish() sends the discovery payload.
Differs(disc, basename, discovery) ==
    basename \notin DOMAIN disc \/ disc[basename] # discovery

\* ConfigStep with the two statements in the other order: record, then
\* publish on basename/config.
ConfigStepRecordFirst(st, item, visit, failAt) ==
    IF ~Differs(st.disc, item.basename, item.discovery) THEN st
    ELSE IF st.calls + 1 = failAt
    THEN [st EXCEPT !.calls = @ + 1, !.raised = TRUE,
                    !.disc = Record(@, item.basename, item.discovery)]
    ELSE [st EXCEPT !.calls = @ + 1,
                    !.msgs = Append(@, Message(item.basename \o "/config",
                                               item.config_payload, TRUE)),
                    !.src = Append(@, visit),
                    !.disc = Record(@, item.basename, item.discovery)]

\* The if statement of the inner loop: publish on basename/config, then record.
ConfigStep(st, item, visit, failAt) ==
    IF ~Differs(st.disc, item.basename, item.discovery) THEN st
    ELSE IF st.calls + 1 = failAt THEN [st EXCEPT !.calls = @ + 1, !.raised = TRUE]
    ELSE [st EXCEPT !.calls = @ + 1,
                    !.msgs = Append(@, Message(item.basename \o "/config",
                                               item.config_payload, TRUE)),
                    !.src = Append(@, visit),
                    !.disc = Record(@, item.basename, item.discovery)]

\* StateStep as the else branch of the if statement: no state message for an
\* item whose config message has just been sent.
StateStepElse(st, item, visit, failAt) ==
    IF Len(st.src) > 0 /\ st.src[Len(st.src)] = visit THEN st
    ELSE IF st.calls + 1 = failAt THEN [st EXCEPT !.calls = @ + 1, !.raised = TRUE]
    ELSE [st EXCEPT !.calls = @ + 1,
                    !.msgs = Append(@, Message(item.basename \o "/state",
                                               item.state_payload, FALSE)),
                    !.src = Append(@, visit)]

\* The last statement of the inner loop: publish on basename/state.
StateStep(st, item, visit, failAt) ==
    IF st.calls + 1 = failAt THEN [st EXCEPT !.calls = @ + 1, !.raised = TRUE]
    ELSE [st EXCEPT !.calls = @ + 1,
                    !.msgs = Append(@, Message(item.basename \o "/state",
                                               item.state_payload, FALSE)),
                    !.src = Append(@, visit)]

\* The body of the inner loop of publish() for one item.
PublishItem(st, item, visit, failAt) ==
    LET afterConfig == ConfigStep(st, item, visit, failAt)
    IN  IF st.raised THEN st
        ELSE IF afterConfig.raised THEN afterConfig
        ELSE StateStep(afterConfig, item, visit, failAt)

RECURSIVE PublishLoop(_, _, _, _)
\* The loops of publish() over the first i items of the queue.
PublishLoop(items, disc, failAt, i) ==
    IF i = 0 THEN [disc |-> disc, msgs |-> <<>>, src |-> <<>>, calls |-> 0, raised |-> FALSE]
    ELSE PublishItem(PublishLoop(items, disc, failAt, i - 1), items[i], i, failAt)

\* What publish() does with the items of the queue and the discovery cache disc.
PublishCall(items, disc, failAt) == PublishLoop(items, disc, failAt, Len(items))

\* Publish without the del self.queue[:] at its end.
PublishKeepQueue(items, failAt) ==
    LET r == PublishCall(items, discovery_data, failAt)
    IN  /\ started
        /\ failAt # 0 => faults < MaxFaults
        /\ faults' = IF r.raised THEN faults + 1 ELSE faults
        /\ discovery_data' = r.disc
        /\ queue' = queue
        /\ prevPub' = lastPub
        /\ lastPub' = [called |-> TRUE, queue |-> queue, items |-> items,
                       disc |-> discovery_data, msgs |-> r.msgs, src |-> r.src,
                       raised |-> r.raised, after |-> r.disc]
        /\ UNCHANGED <<now, include, exclude, rate_cache, started, config, temp_id,
                       client, polls, prevStart>>

\* MQTTPublisher.publish(), items being PreparedItems(queue). The
\* mqtt_client.publish call number failAt raises and the exception leaves
\* publish() at that point; failAt = 0: none raises. The call is recorded in
\* the history.
Publish(items, failAt) ==
    LET r == PublishCall(items, discovery_data, failAt)
    IN  /\ started
        /\ failAt # 0 => faults < MaxFaults
        /\ faults' = IF r.raised THEN faults + 1 ELSE faults
        /\ discovery_data' = r.disc
        /\ queue' = IF r.raised THEN queue ELSE <<>>
        /\ prevPub' = lastPub
        /\ lastPub' = [called |-> TRUE, queue |-> queue, items |-> items,
                       disc |-> discovery_data, msgs |-> r.msgs, src |-> r.src,
                       raised |-> r.raised, after |-> r.disc]
        /\ UNCHANGED <<now, include, exclude, rate_cache, started, config, temp_id,
                       client, polls, prevStart>>

-----------------------------------------------------------------------------
(* The devices: what the two walks of poll() return. *)

\* The columns of the interface table and of the ADSL line table, in the
\* order the walks return them.
Columns == <<"ifIndex", "ifDescr", "ifSpeed", "ifPhysAddress", "ifInOctets",
             "adslAtucCurrAtn">>

\* A row of the tables: the cells of one oid_index. A cell <<>> is absent,
\* otherwise it is <<snmp_type, value>>.
Row(idx, descr, speed, phys, octets, atn) ==
    [oid_index |-> idx,
     cells |-> <<<<"INTEGER", idx>>, descr, speed, phys, octets, atn>>]

RECURSIVE WalkFrom(_, _)
\* chain(walk(IF_MIB_ROOT), walk(ADSL_MIB_ROOT)): column by column, cells
\* numbered from n on (cell n is row r of column c, n = (c-1) * rows + r - 1).
WalkFrom(rows, n) ==
    IF n >= Len(Columns) * Len(rows) THEN <<>>
    ELSE LET c == (n \div Len(rows)) + 1
             r == (n % Len(rows)) + 1
             cell == rows[r].cells[c]
         IN  (IF cell = <<>> THEN <<>>
              ELSE <<[oid_index |-> rows[r].oid_index, oid |-> Columns[c],
                      snmp_type |-> cell[1], value |-> cell[2]]>>)
             \o WalkFrom(rows, n + 1)

WalkOf(rows) == WalkFrom(rows, 0)

\* The devices of the publishing scenario: one interface with a hardware
\* address, of either name, with a counter or without.
MainWalks ==
    {WalkOf(<<Row("1", <<"OCTETSTR", d>>, <<>>, <<"OCTETSTR", "AB">>, o, <<>>)>>) :
        d \in {"eth0", "eth1"}, o \in {<<>>, <<"COUNTER", "1000">>}}

\* The devices of the rate scenario: no interface, or one interface of either
\* name and either counter value.
RateWalks ==
    {<<>>} \cup
    {WalkOf(<<Row("1", <<"OCTETSTR", d>>, <<>>, <<>>, <<"COUNTER", o>>, <<>>)>>) :
        d \in {"eth0", "eth1"}, o \in {"1000", "2000"}}

\* The devices of the identity scenario: one interface of either name, with no
\* hardware address, an empty one or one of two, of either counter value.
IdentityWalks ==
    {WalkOf(<<Row("1", <<"OCTETSTR", d>>, <<>>, p, <<"COUNTER", o>>, <<>>)>>) :
        d \in {"eth0", "eth1"},
        p \in {<<>>, <<"OCTETSTR", "">>, <<"OCTETSTR", "AB">>, <<"OCTETSTR", "CD">>},
        o \in {"1000", "2000"}}

\* The rows of the filter scenario at index idx: ifDescr absent, a name, the
\* empty name or a name of another type; a counter that is a number or not.
FilterRows(idx) ==
    {Row(idx, d, <<>>, <<>>, <<"COUNTER", o>>, <<>>) :
        d \in {<<>>, <<"OCTETSTR", "eth0">>, <<"OCTETSTR", "eth1">>, <<"OCTETSTR", "">>,
               <<"INTEGER", "eth0">>},
        o \in {"7", "x"}}

\* The devices of the filter scenario: one or two interfaces.
FilterWalks ==
    {WalkOf(<<r>>) : r \in FilterRows("1")}
    \cup {WalkOf(<<r1, r2>>) : r1 \in FilterRows("1"), r2 \in FilterRows("2")}

\* The devices of the pair scenario: two interfaces, each of either name, with
\* no hardware address or one of two, with or without a speed; the counters
\* of the two differ.
PairWalks ==
    {WalkOf(<<Row("1", <<"OCTETSTR", d1>>, s1, p1, <<"COUNTER", "1000">>, <<>>),
              Row("2", <<"OCTETSTR", d2>>, s2, p2, <<"COUNTER", "2000">>, <<>>)>>) :
        d1 \in {"eth0", "eth1"}, d2 \in {"eth0", "eth1"},
        s1 \in {<<>>, <<"GAUGE", "100">>}, s2 \in {<<>>, <<"GAUGE", "100">>},
        p1 \in {<<>>, <<"OCTETSTR", "AB">>, <<"OCTETSTR", "CD">>},
        p2 \in {<<>>, <<"OCTETSTR", "AB">>, <<"OCTETSTR", "CD">>}}

\* The devices of the cast scenario: the interface eth0 with a counter that is
\* a number or not; eth0 and eth1, the counter of eth1 a number or not; eth0
\* and a record with an empty name whose counter is not a number.
CastWalks ==
    {WalkOf(<<Row("1", <<"OCTETSTR", "eth0">>, <<>>, <<>>, <<"COUNTER", o>>, <<>>)>>) :
        o \in {"1000", "2000", "-5", "x", ""}}
    \cup {WalkOf(<<Row("1", <<"OCTETSTR", "eth0">>, <<>>, <<>>, <<"COUNTER", "1000">>, <<>>),
                   Row("2", <<"OCTETSTR", d>>, <<>>, <<>>, <<"COUNTER", o>>, <<>>)>>) :
             d \in {"eth1", ""}, o \in {"2000", "x"}}

\* The fields of the unit scenario, in the order of the walks, as
\* <<name, snmp_type, value>>.
UnitFields ==
    <<<<"ifMtu", "INTEGER", "1500">>, <<"ifSpeed", "GAUGE", "100">>,
      <<"ifOperStatus", "INTEGER", "1">>, <<"ifInOctets", "COUNTER", "1000">>,
      <<"ifInUcastPkts", "COUNTER", "7">>, <<"ifInDiscards", "COUNTER", "0">>,
      <<"ifInErrors", "COUNTER", "3">>, <<"adslAtucCurrAtn", "GAUGE", "120">>,
      <<"adslAturCurrSnrMgn", "INTEGER", "65">>,
      <<"adslAtucCurrOutputPwr", "INTEGER", "-15">>,
      <<"adslAtucChanCurrTxRate", "GAUGE", "8000">>>>

\* The walk of the interface eth0 with the fields of UnitFields but `left`.
UnitWalk(left) ==
    <<[oid_index |-> "1", oid |-> "ifIndex", snmp_type |-> "INTEGER", value |-> "1"],
      [oid_index |-> "1", oid |-> "ifDescr", snmp_type |-> "OCTETSTR", value |-> "eth0"]>>
    \o [i \in 1..Len(SelectSeq(UnitFields, LAMBDA f : f[1] # left)) |->
           LET f == SelectSeq(UnitFields, LAMBDA g : g[1] # left)[i]
           IN  [oid_index |-> "1", oid |-> f[1], snmp_type |-> f[2], value |-> f[3]]]

\* The devices of the unit scenario: an interface with a field of every unit
\* rule, all of them or all but one.
UnitWalks == {UnitWalk(left) : left \in {""} \cup {UnitFields[i][1] : i \in 1..Len(UnitFields)}}

\* The devices of the cycle scenario: the interface eth0 with the address AB,
\* a speed that is 0 or not and a counter of either value.
CycleWalks ==
    {WalkOf(<<Row("1", <<"OCTETSTR", "eth0">>, <<"GAUGE", s>>, <<"OCTETSTR", "AB">>,
                  <<"COUNTER", o>>, <<>>)>>) :
        s \in {"0", "100"}, o \in {"1000", "2000"}}

\* The devices of the shared publisher scenario: the interface eth0 with the
\* address AB and a counter of either value, on every host.
ShareWalks ==
    {WalkOf(<<Row("1", <<"OCTETSTR", "eth0">>, <<>>, <<"OCTETSTR", "AB">>,
                  <<"COUNTER", o>>, <<>>)>>) : o \in {"1000", "2000"}}

\* The interface names of the include and exclude lists.
ListedNames == {"eth0", "eth1"}

-----------------------------------------------------------------------------
(* The specifications. *)

DefaultConfig ==
    [broker |-> "localhost", username |-> "", password |-> "",
     discovery_prefix |-> "homeassistant", id_hash |-> "fleet"]

\* The configurations of the start scenario.
StartConfigs ==
    [broker : {"localhost"}, username : {"", "user"}, password : {"", "secret"},
     discovery_prefix : {"homeassistant", "ha"}, id_hash : {None, "", "fleet"}]

\* The state once main() has constructed the publisher and the connections.
Constructed(cfg, uuid) ==
    /\ now = 0
    /\ started = TRUE
    /\ config = cfg
    /\ temp_id = (IF Truthy(cfg.id_hash) THEN cfg.id_hash ELSE uuid)
    /\ client = InitCalls(availability_topic)
    /\ queue = <<>>
    /\ discovery_data = <<>>
    /\ rate_cache = NoRates
    /\ polls = 0
    /\ faults = 0
    /\ lastPoll = NoPolls
    /\ prevPoll = NoPolls
    /\ lastPub = NoCall
    /\ prevPub = NoCall
    /\ prevStart = None

\* No include list and no exclude list.
NoLists ==
    /\ include = [c \in Conns |-> {}]
    /\ exclude = [c \in Conns |-> {}]

Init == NoLists /\ \E uuid \in UUIDs : Constructed(DefaultConfig, uuid)

\* A poll of the main loop, one second after the previous one.
PollMain ==
    \E walk \in MainWalks :
        /\ polls < MaxMainPolls
        /\ Poll("router1", walk, 1)
        /\ UNCHANGED <<lastPoll, prevPoll>>

\* A publish() call, any one of its broker calls raising, or none.
PublishAny ==
    LET items == PreparedItems(queue)
    IN  \E failAt \in 0..PublishCall(items, discovery_data, 0).calls :
            Publish(items, failAt) /\ UNCHANGED <<lastPoll, prevPoll>>

Next == PollMain \/ PublishAny

\* The publishing scenario: polls of one device and publish() calls, in any
\* order.
Spec == Init /\ [][Next]_vars

\* A poll 0, 1 or 2 seconds after the previous one.
PollRate ==
    \E walk \in RateWalks, dt \in {0, 1, 2} :
        /\ Poll("router1", walk, dt)
        /\ LogPoll("router1", walk, dt)
        /\ UNCHANGED <<lastPub, prevPub>>

\* The rate scenario: polls of one device whose interface comes and goes.
SpecRate == Init /\ [][PollRate]_vars

PollIdentity ==
    \E walk \in IdentityWalks :
        /\ Poll("router1", walk, 1)
        /\ LogPoll("router1", walk, 1)
        /\ UNCHANGED <<lastPub, prevPub>>

\* The identity scenario: polls of one device whose interface changes.
SpecIdentity == Init /\ [][PollIdentity]_vars

InitFilter ==
    /\ \E inc \in SUBSET ListedNames, exc \in SUBSET ListedNames :
        /\ include = [c \in Conns |-> inc]
        /\ exclude = [c \in Conns |-> exc]
    /\ \E uuid \in UUIDs : Constructed(DefaultConfig, uuid)

\* The first poll of a connection.
PollFirst ==
    \E walk \in FilterWalks :
        /\ ~lastPoll["router1"].called
        /\ Poll("router1", walk, 1)
        /\ LogPoll("router1", walk, 1)
        /\ UNCHANGED <<lastPub, prevPub>>

\* The filter scenario: one poll, under every include and exclude list.
SpecFilter == InitFilter /\ [][PollFirst]_vars

\* The poll of a cycle: the queue was published.
PollCycle ==
    \E walk \in CycleWalks :
        /\ queue = <<>>
        /\ Poll("router1", walk, 1)
        /\ LogPoll("router1", walk, 1)
        /\ UNCHANGED <<lastPub, prevPub>>

\* The publish() call of a cycle, no broker call raising.
PublishCycle ==
    /\ queue # <<>>
    /\ Publish(PreparedItems(queue), 0)
    /\ UNCHANGED <<lastPoll, prevPoll>>

NextCycle == PollCycle \/ PublishCycle

\* The cycle scenario: the loop of main() with one device whose interface,
\* field names and hardware address stay the same.
SpecCycle == Init /\ [][NextCycle]_vars

\* A poll of either connection.
PollShare ==
    \E c \in Conns, walk \in ShareWalks :
        /\ Poll(c, walk, 1)
        /\ LogPoll(c, walk, 1)
        /\ UNCHANGED <<lastPub, prevPub>>

\* A publish() call, no broker call raising.
PublishShare ==
    Publish(PreparedItems(queue), 0) /\ UNCHANGED <<lastPoll, prevPoll>>

NextShare == PollShare \/ PublishShare

\* The shared publisher scenario: two connections polled in any order, and
\* publish() calls.
SpecShare == Init /\ [][NextShare]_vars

\* The first poll of a connection, of a device with two interfaces.
PollPair ==
    \E walk \in PairWalks :
        /\ ~lastPoll["router1"].called
        /\ Poll("router1", walk, 1)
        /\ LogPoll("router1", walk, 1)
        /\ UNCHANGED <<lastPub, prevPub>>

\* The pair scenario: one poll of a device with two interfaces.
SpecPair == Init /\ [][PollPair]_vars

\* A poll of a device whose counters may be malformed.
PollCast ==
    \E walk \in CastWalks :
        /\ Poll("router1", walk, 1)
        /\ LogPoll("router1", walk, 1)
        /\ UNCHANGED <<lastPub, prevPub>>

\* The cast scenario: polls of one device, the caller going on after a poll
\* that raised.
SpecCast == Init /\ [][PollCast]_vars

\* A poll of a device with a field of every unit rule.
PollUnit ==
    \E walk \in UnitWalks :
        /\ Poll("router1", walk, 1)
        /\ LogPoll("router1", walk, 1)
        /\ UNCHANGED <<lastPub, prevPub>>

\* The unit scenario: polls of one device.
SpecUnit == Init /\ [][PollUnit]_vars

InitStart ==
    /\ NoLists
    /\ \E cfg \in StartConfigs, uuid \in UUIDs : Constructed(cfg, uuid)

StartAny == \E uuid \in UUIDs : Start(uuid)

NextStart == Stop \/ StartAny

\* The start scenario: the process is stopped and started again.
SpecStart == InitStart /\ [][NextStart]_vars

\* A poll of the interface eth0, the clock not advancing.
PollAnnounce ==
    /\ polls < MaxMainPolls
    /\ Poll("router1",
            WalkOf(<<Row("1", <<"OCTETSTR", "eth0">>, <<>>, <<"OCTETSTR", "AB">>,
                         <<"COUNTER", "1000">>, <<>>)>>), 0)
    /\ UNCHANGED <<lastPoll, prevPoll>>

\* A publish() call, no broker call raising.
PublishAnnounce ==
    Publish(PreparedItems(queue), 0) /\ UNCHANGED <<lastPoll, prevPoll>>

NextAnnounce == Stop \/ StartAny \/ PollAnnounce \/ PublishAnnounce

\* The announce scenario: the process under every configuration, started,
\* polling and publishing, stopped and started again.
SpecAnnounce == InitStart /\ [][NextAnnounce]_vars

-----------------------------------------------------------------------------
(* The publish() calls of the history. *)

\* The items the call p visited, prepared as publish() prepares them.
ItemsOf(p) == p.items

\* The messages of the call p that came from item i, on its topic basename +
\* suffix.
MsgsOf(p, i, suffix) ==
    {m \in 1..Len(p.msgs) :
        p.src[m] = i /\ p.msgs[m].topic = ItemsOf(p)[i].basename \o suffix}

\* Item i of the call p was dealt with to the end: the call did not raise, or
\* it raised after the state message of the item.
Completed(p, i) == ~p.raised \/ MsgsOf(p, i, "/state") # {}

\* The item at which the call p raised: the first without a state message.
FailedItem(p) ==
    CHOOSE k \in 1..Len(ItemsOf(p)) :
        /\ MsgsOf(p, k, "/state") = {}
        /\ \A j \in 1..(k - 1) : MsgsOf(p, j, "/state") # {}

\* The payload recorded for the basename of item i when the call p reached
\* the item, as <<payload>>, or <<>> when the basename had not been published:
\* that of the latest earlier item of the call with this basename, or else
\* that of the cache the call started with.
RecordedBefore(p, i) ==
    LET items == ItemsOf(p)
        b == items[i].basename
        earlier == {j \in 1..(i - 1) : items[j].basename = b}
    IN  IF earlier # {}
        THEN <<items[CHOOSE j \in earlier : \A k \in earlier : k <= j].discovery>>
        ELSE IF b \in DOMAIN p.disc THEN <<p.disc[b]>>
        ELSE <<>>

\* The call p raised in the broker call that publishes the discovery payload
\* of item k.
ConfigFailed(p, k) ==
    /\ p.called /\ p.raised
    /\ k = FailedItem(p)
    /\ MsgsOf(p, k, "/config") = {}
    /\ RecordedBefore(p, k) # <<ItemsOf(p)[k].discovery>>

\* Two calls in a row, neither raising, of the same queue of one snapshot.
SameSnapshotTwice ==
    /\ prevPub.called /\ lastPub.called
    /\ ~prevPub.raised /\ ~lastPub.raised
    /\ Len(lastPub.queue) = 1
    /\ prevPub.queue = lastPub.queue

\* C1: publish() sends the discovery payload of an item, retained, on
\* basename/config exactly when the basename has not been published or the
\* payload recorded for it differs from the new one, and the payload recorded
\* afterwards is the new one; the same snapshot published in two cycles in a
\* row gets one config message per item (none if the cache held the payload
\* already) and two state messages per item.
C1_DiscoveryOnChange ==
    /\ lastPub.called =>
        LET p == lastPub
            items == ItemsOf(p)
        IN  /\ \A i \in 1..Len(items) :
                Completed(p, i) =>
                    /\ Cardinality(MsgsOf(p, i, "/config"))
                        = (IF RecordedBefore(p, i) = <<items[i].discovery>> THEN 0 ELSE 1)
                    /\ \A m \in MsgsOf(p, i, "/config") :
                        /\ p.msgs[m].retain
                        /\ p.msgs[m].payload = JsonDumps(items[i].discovery)
            /\ ~p.raised =>
                \A i \in 1..Len(items) :
                    (\A j \in (i + 1)..Len(items) : items[j].basename # items[i].basename)
                        => /\ items[i].basename \in DOMAIN discovery_data
                           /\ discovery_data[items[i].basename] = items[i].discovery
    /\ SameSnapshotTwice =>
        \A i \in 1..Len(ItemsOf(lastPub)) :
            /\ Cardinality(MsgsOf(prevPub, i, "/config"))
                 + Cardinality(MsgsOf(lastPub, i, "/config"))
                = (IF RecordedBefore(prevPub, i) = <<ItemsOf(prevPub)[i].discovery>>
                   THEN 0 ELSE 1)
            /\ Cardinality(MsgsOf(prevPub, i, "/state"))
                 + Cardinality(MsgsOf(lastPub, i, "/state")) = 2

\* The same snapshot was published twice, the cache being empty at first: the
\* first call sent the config messages and the second sent none.
C1_Witness ==
    /\ SameSnapshotTwice
    /\ prevPub.disc = <<>>
    /\ \E i \in 1..Len(ItemsOf(prevPub)) : MsgsOf(prevPub, i, "/config") # {}
    /\ \A i \in 1..Len(ItemsOf(lastPub)) : MsgsOf(lastPub, i, "/config") = {}

\* C2: a publish() call that does not raise sends, for every item of every
\* queued snapshot, exactly one message on basename/state, not retained, with
\* str(value) of the item, whether or not it sent a config message for the
\* item; a call that raises has sent at most that for each item, and publish()
\* sends nothing but config and state messages.
C2_StateAlways ==
    lastPub.called =>
        LET p == lastPub
            items == ItemsOf(p)
            visits == Visits(p.queue, Len(p.queue))
        IN  /\ \A i \in 1..Len(items) :
                /\ Cardinality(MsgsOf(p, i, "/state")) <= 1
                /\ ~p.raised => Cardinality(MsgsOf(p, i, "/state")) = 1
                /\ \A m \in MsgsOf(p, i, "/state") :
                    /\ ~p.msgs[m].retain
                    /\ p.msgs[m].payload
                        = PyStr(p.queue[visits[i][1]].items[visits[i][2]].value)
            /\ \A m \in 1..Len(p.msgs) :
                m \in MsgsOf(p, p.src[m], "/state") \cup MsgsOf(p, p.src[m], "/config")

\* A call sent the state of an item with its config message and the state of
\* another item, an integer, without one.
C2_Witness ==
    /\ lastPub.called /\ ~lastPub.raised
    /\ \E i, j \in 1..Len(ItemsOf(lastPub)) :
        /\ MsgsOf(lastPub, i, "/config") # {} /\ MsgsOf(lastPub, i, "/state") # {}
        /\ MsgsOf(lastPub, j, "/config") = {}
        /\ \E m \in MsgsOf(lastPub, j, "/state") : lastPub.msgs[m].payload = "1000"

\* C7: when the broker call that publishes a discovery payload raises, the
\* cache does not hold that payload for the basename afterwards, and the next
\* publish() call, if it does not raise and builds the same payload for the
\* basename, publishes it on basename/config.
C7_UnsentNotRecorded ==
    /\ \A k \in 1..(IF lastPub.called THEN Len(ItemsOf(lastPub)) ELSE 0) :
        ConfigFailed(lastPub, k) =>
            LET item == ItemsOf(lastPub)[k]
            IN  ~(/\ item.basename \in DOMAIN lastPub.after
                  /\ lastPub.after[item.basename] = item.discovery)
    /\ \A k \in 1..(IF prevPub.called THEN Len(ItemsOf(prevPub)) ELSE 0) :
        (/\ ConfigFailed(prevPub, k)
         /\ lastPub.called /\ ~lastPub.raised
         /\ \E i \in 1..Len(ItemsOf(lastPub)) :
                /\ ItemsOf(lastPub)[i].basename = ItemsOf(prevPub)[k].basename
                /\ ItemsOf(lastPub)[i].discovery = ItemsOf(prevPub)[k].discovery)
        => \E m \in 1..Len(lastPub.msgs) :
                /\ lastPub.msgs[m].topic = ItemsOf(prevPub)[k].basename \o "/config"
                /\ lastPub.msgs[m].payload = JsonDumps(ItemsOf(prevPub)[k].discovery)
                /\ lastPub.msgs[m].retain

\* A call raised while publishing the discovery payload of its second item
\* or a later one, and the next call published that payload.
C7_Witness ==
    /\ lastPub.called /\ ~lastPub.raised
    /\ \E k \in 2..(IF prevPub.called THEN Len(ItemsOf(prevPub)) ELSE 0) :
        /\ ConfigFailed(prevPub, k)
        /\ MsgsOf(lastPub, k, "/config") # {}

\* C8: after a publish() call that raised, no later publish() call sends a
\* message of a snapshot that was queued when the call raised: the messages of
\* the next call all come from snapshots queued after it.
C8_NoResend ==
    (prevPub.called /\ prevPub.raised /\ lastPub.called) =>
        \A m \in 1..Len(lastPub.msgs) :
            Visits(lastPub.queue, Len(lastPub.queue))[lastPub.src[m]][1]
                > Len(prevPub.queue)

-----------------------------------------------------------------------------
(* The poll() calls of the history. *)

Range(s) == {s[i] : i \in 1..Len(s)}

\* The varbinds of the call's walk that belong to the records the call kept.
KeptVars(p) == {v \in Range(p.walk) : v.oid_index \in Range(p.kept)}

\* The name of the kept record idx: the value of its ifDescr varbind.
NameOf(p, idx) ==
    (CHOOSE v \in Range(p.walk) : v.oid_index = idx /\ v.oid = "ifDescr").value

\* The Octets varbinds of the records the call kept.
OctetsVars(p) == {v \in KeptVars(p) : EndsWith(v.oid, "Octets")}

\* The items named item_name of the snapshots of the interface `name`.
ItemsNamed(p, name, item_name) ==
    {<<i, j>> \in UNION {{<<i, j>> : j \in 1..Len(p.snapshots[i].items)} :
                            i \in 1..Len(p.snapshots)} :
        /\ p.snapshots[i].name = name
        /\ p.snapshots[i].items[j].name = item_name}

\* The derived rate items of the varbind v.
DerivedOf(p, v) == ItemsNamed(p, NameOf(p, v.oid_index), SnakeCase[v.oid \o "PS"])

ItemAt(p, ij) == p.snapshots[ij[1]].items[ij[2]]

\* The float values among the derived rate items of the call.
FloatRates(p) ==
    {x \in {ItemAt(p, ij).value : ij \in UNION {DerivedOf(p, v) : v \in OctetsVars(p)}} :
        x.t = "float"}

\* The call p completed.
Polled(p) == p.called /\ p.outcome = "ok"

\* C3: for every Octets field of a surviving interface, a poll emits no
\* derived rate item when the rate cache has no entry for (name, field); one
\* derived item of value delta / elapsed when it has an entry, the counter did
\* not decrease and the clock advanced; and one derived item with the empty
\* value otherwise. No derived rate is negative.
C3_RateDerivation ==
    LET p == lastPoll["router1"]
    IN  Polled(p) =>
        /\ \A v \in OctetsVars(p) :
            LET lookup_key == <<NameOf(p, v.oid_index), v.oid>>
                derived == DerivedOf(p, v)
            IN  IF lookup_key \notin DOMAIN p.cache
                THEN derived = {}
                ELSE LET delta == ParseInt(v.value) - p.cache[lookup_key].data
                         elapsed == p.now - p.cache[lookup_key].time
                     IN  /\ Cardinality(derived) = 1
                         /\ \A ij \in derived :
                              /\ ItemAt(p, ij).unit_of_measurement = "B/s"
                              /\ IF delta >= 0 /\ elapsed > 0
                                 THEN /\ ItemAt(p, ij).value.t = "float"
                                      /\ ItemAt(p, ij).value.d > 0
                                      /\ ItemAt(p, ij).value.n * elapsed
                                            = delta * ItemAt(p, ij).value.d
                                 ELSE ItemAt(p, ij).value = StrV("")
        /\ \A x \in FloatRates(p) : x.d > 0 /\ x.n >= 0

\* A counter was seeded, increased (a positive rate was emitted) and then
\* decreased: the latest poll emitted the empty rate.
C3_Witness ==
    LET p == lastPoll["router1"]
        q == prevPoll["router1"]
    IN  /\ Polled(p) /\ Polled(q)
        /\ \E x \in FloatRates(q) : x.n > 0
        /\ \E v \in OctetsVars(p) :
            /\ <<NameOf(p, v.oid_index), v.oid>> \in DOMAIN p.cache
            /\ ParseInt(v.value) < p.cache[<<NameOf(p, v.oid_index), v.oid>>].data
            /\ p.now > p.cache[<<NameOf(p, v.oid_index), v.oid>>].time
            /\ \E ij \in DerivedOf(p, v) : ItemAt(p, ij).value = StrV("")

\* The names of the interfaces of the snapshots of the call.
SnapshotNames(p) == {p.snapshots[i].name : i \in 1..Len(p.snapshots)}

\* The derived rate items of the interface `name` in the call.
RateItemsOf(p, name) ==
    {<<i, j>> \in UNION {{<<i, j>> : j \in 1..Len(p.snapshots[i].items)} :
                            i \in 1..Len(p.snapshots)} :
        /\ p.snapshots[i].name = name
        /\ p.snapshots[i].items[j].unit_of_measurement = "B/s"}

\* C4: after a poll the rate cache is exactly the (name, Octets field) pairs
\* of the surviving interfaces of that poll, each with the poll's timestamp
\* and counter value, whatever the cache held before; an interface absent
\* from the previous poll gets no derived rate item when it reappears.
C4_CacheReplaced ==
    LET p == lastPoll["router1"]
        q == prevPoll["router1"]
    IN  Polled(p) =>
        /\ DOMAIN rate_cache["router1"]
              = {<<NameOf(p, v.oid_index), v.oid>> : v \in OctetsVars(p)}
        /\ \A v \in OctetsVars(p) :
              rate_cache["router1"][<<NameOf(p, v.oid_index), v.oid>>]
                 = DataPoint(p.now, ParseInt(v.value))
        /\ Polled(q) =>
              \A name \in SnapshotNames(p) \ SnapshotNames(q) : RateItemsOf(p, name) = {}

\* An interface with a cache entry was absent from the previous poll and is
\* back in the latest one.
C4_Witness ==
    LET p == lastPoll["router1"]
        q == prevPoll["router1"]
    IN  /\ Polled(p) /\ Polled(q)
        /\ \E name \in SnapshotNames(p) \ SnapshotNames(q) :
              /\ \E k \in DOMAIN q.cache : k[1] = name
              /\ \E v \in OctetsVars(p) : NameOf(p, v.oid_index) = name
              /\ DOMAIN rate_cache["router1"] # {}

\* The indices of the records of the walk of the call.
Indices(p) == {v.oid_index : v \in Range(p.walk)}

\* The record idx has a name: an ifDescr of the text string type that is not
\* empty.
ValidName(p, idx) ==
    \E v \in Range(p.walk) :
        /\ v.oid_index = idx /\ v.oid = "ifDescr"
        /\ v.snmp_type = "OCTETSTR" /\ v.value # ""

\* The records of the walk with a valid name.
Named(p) == {idx \in Indices(p) : ValidName(p, idx)}

\* A counter of a kept record is not a number: int() raises.
BadCounter(p) ==
    \E v \in KeptVars(p) : EndsWith(v.oid, "Octets") /\ ~IsIntLiteral(v.value)

\* C5: poll() keeps a record exactly when it has a name of the text string
\* type that is not empty, the include list is empty or holds the name, and
\* the exclude list does not hold the name (so a name in both lists is
\* dropped); the snapshots are those of the kept records, and only a kept
\* record makes the call raise.
C5_FilterRule ==
    LET p == lastPoll["router1"]
        inc == include["router1"]
        exc == exclude["router1"]
    IN  p.called =>
        /\ Range(p.kept)
              = {idx \in Named(p) : /\ (inc = {} \/ NameOf(p, idx) \in inc)
                                    /\ NameOf(p, idx) \notin exc}
        /\ p.outcome = "ok" =>
              /\ SnapshotNames(p) = {NameOf(p, idx) : idx \in Range(p.kept)}
              /\ Len(p.snapshots) = Cardinality(SnapshotNames(p))
        /\ p.outcome = "error" <=> BadCounter(p)

\* A name in both lists: the record eth0 is dropped although its counter is
\* not a number, the record eth1 is kept, and the call returns one snapshot.
C5_Witness ==
    LET p == lastPoll["router1"]
    IN  /\ p.called /\ p.outcome = "ok"
        /\ include["router1"] = {"eth0", "eth1"}
        /\ exclude["router1"] = {"eth0"}
        /\ Indices(p) = {"1", "2"} /\ Named(p) = {"1", "2"}
        /\ NameOf(p, "1") = "eth0" /\ NameOf(p, "2") = "eth1"
        /\ \E v \in Range(p.walk) :
              v.oid_index = "1" /\ v.oid = "ifInOctets" /\ v.value = "x"
        /\ p.kept = <<"2">>
        /\ Len(p.snapshots) = 1

\* The first half of C6: with no include list and eth0 excluded, the records
\* kept are the named ones other than eth0.
ExcludeOnly(p) ==
    (include["router1"] = {} /\ exclude["router1"] = {"eth0"}) =>
        Range(p.kept) = {idx \in Named(p) : NameOf(p, idx) # "eth0"}

\* C6 as stated: with include = ["eth0"], exactly the record named eth0 is
\* kept, regardless of the exclude list.
C6_IncludeRegardless ==
    LET p == lastPoll["router1"]
    IN  p.called =>
        /\ ExcludeOnly(p)
        /\ include["router1"] = {"eth0"} =>
              Range(p.kept) = {idx \in Named(p) : NameOf(p, idx) = "eth0"}

\* C6: with no include list and eth0 excluded, eth0 is dropped and every other
\* named record is kept; with include = ["eth0"], exactly the record named eth0
\* is kept when the exclude list does not hold eth0, and no record is kept when
\* it does.
C6_IncludeUnlessExcluded ==
    LET p == lastPoll["router1"]
    IN  p.called =>
        /\ ExcludeOnly(p)
        /\ include["router1"] = {"eth0"} =>
              Range(p.kept) = IF "eth0" \in exclude["router1"] THEN {}
                              ELSE {idx \in Named(p) : NameOf(p, idx) = "eth0"}

\* eth0 is the include list and is excluded too: the walk has the record eth0
\* and another one, and nothing is kept.
C6_Witness ==
    LET p == lastPoll["router1"]
    IN  /\ p.called
        /\ include["router1"] = {"eth0"}
        /\ "eth0" \in exclude["router1"]
        /\ \E idx \in Named(p) : NameOf(p, idx) = "eth0"
        /\ \E idx \in Named(p) : NameOf(p, idx) = "eth1"
        /\ p.kept = <<>>

\* C9 as stated: two publisher instances started with the same configuration
\* use the same availability topic, no random value entering its name.
C9_SameTopicAcrossRestarts ==
    (started /\ prevStart # None) => availability_topic = prevStart

\* The hardware address field of the record idx in the walk of the call.
HwOf(p, idx) ==
    LET vs == {v \in Range(p.walk) : v.oid_index = idx /\ v.oid = "ifPhysAddress"}
    IN  IF vs = {} THEN [present |-> FALSE, value |-> ""]
        ELSE [present |-> TRUE, value |-> (CHOOSE v \in vs : TRUE).value]

\* The unique_name of the snapshot of the kept record idx.
UniqueNameOf(p, idx) ==
    (CHOOSE s \in Range(p.snapshots) : s.name = NameOf(p, idx)).unique_name

\* C10: the unique_name of a snapshot is the prefix of the host's hash, "-",
\* and the hardware address in hex when it is present and not empty, else "_"
\* and the name; between two polls of the connection that leave the hardware
\* address field as it was (and the name, where the address is absent or
\* empty), the unique_name is the same, whatever else changes.
C10_StableIdentity ==
    LET p == lastPoll["router1"]
        q == prevPoll["router1"]
    IN  Polled(p) =>
        /\ \A idx \in Range(p.kept) :
              UniqueNameOf(p, idx)
                 = id_base("router1") \o "-"
                      \o (IF HwOf(p, idx).present /\ HwOf(p, idx).value # ""
                          THEN HexStr(HwOf(p, idx).value)
                          ELSE "_" \o NameOf(p, idx))
        /\ Polled(q) =>
              \A idx \in Range(p.kept) \cap Range(q.kept) :
                  ( /\ HwOf(p, idx) = HwOf(q, idx)
                    /\ \/ HwOf(p, idx).value # ""
                       \/ NameOf(p, idx) = NameOf(q, idx) )
                  => UniqueNameOf(p, idx) = UniqueNameOf(q, idx)

\* Two polls with the same hardware address, the name and the counter
\* changed: the unique_name is the same.
C10_Witness ==
    LET p == lastPoll["router1"]
        q == prevPoll["router1"]
    IN  /\ Polled(p) /\ Polled(q)
        /\ "1" \in Range(p.kept) \cap Range(q.kept)
        /\ HwOf(p, "1") = [present |-> TRUE, value |-> "AB"]
        /\ HwOf(q, "1") = HwOf(p, "1")
        /\ NameOf(p, "1") # NameOf(q, "1")
        /\ p.walk # q.walk
        /\ \E v \in Range(p.walk) : v.oid = "ifInOctets" /\ v \notin Range(q.walk)
        /\ UniqueNameOf(p, "1") = UniqueNameOf(q, "1")
        /\ UniqueNameOf(p, "1") = id_base("router1") \o "-4142"

\* The kept records of the call with the name `name`, and the last of them in
\* the order of the walk.
RecordsNamed(p, name) == {i \in 1..Len(p.kept) : NameOf(p, p.kept[i]) = name}

LastNamed(p, name) ==
    p.kept[CHOOSE i \in RecordsNamed(p, name) : \A j \in RecordsNamed(p, name) : j <= i]

\* C11 as stated: within one poll no two snapshots carry the same
\* unique_name.
C11_NeverCollide ==
    LET p == lastPoll["router1"]
    IN  Polled(p) =>
        \A i, j \in 1..Len(p.snapshots) :
            i # j => p.snapshots[i].unique_name # p.snapshots[j].unique_name

\* C11: within one poll two snapshots of different interfaces carry the same
\* unique_name only when the two interfaces report the same hardware address,
\* not empty; with hardware addresses that differ, or absent, the unique_names
\* differ.
C11_CollideOnlyOnSharedAddress ==
    LET p == lastPoll["router1"]
    IN  Polled(p) =>
        \A i, j \in 1..Len(p.snapshots) :
            (i # j /\ p.snapshots[i].unique_name = p.snapshots[j].unique_name) =>
                LET a == LastNamed(p, p.snapshots[i].name)
                    b == LastNamed(p, p.snapshots[j].name)
                IN  /\ HwOf(p, a).present /\ HwOf(p, b).present
                    /\ HwOf(p, a).value # ""
                    /\ HwOf(p, a).value = HwOf(p, b).value

\* Two interfaces with different hardware addresses, and two with none: the
\* unique_names of the two snapshots differ.
C11_Witness ==
    LET p == lastPoll["router1"]
    IN  /\ Polled(p)
        /\ Len(p.snapshots) = 2
        /\ \/ (HwOf(p, "1").value = "AB" /\ HwOf(p, "2").value = "CD")
           \/ (~HwOf(p, "1").present /\ ~HwOf(p, "2").present)
        /\ p.snapshots[1].unique_name # p.snapshots[2].unique_name

\* The names of the items of a snapshot.
ItemNames(s) == {s.items[j].name : j \in 1..Len(s.items)}

\* The value of the item named item_name of a snapshot.
ItemValue(s, item_name) ==
    s.items[CHOOSE j \in 1..Len(s.items) : s.items[j].name = item_name].value

\* The value of the varbind oid of the record idx of the walk.
RawOf(p, idx, oid) ==
    (CHOOSE v \in Range(p.walk) : v.oid_index = idx /\ v.oid = oid).value

\* The record idx of the walk has the varbind oid.
HasVar(p, idx, oid) == \E v \in Range(p.walk) : v.oid_index = idx /\ v.oid = oid

\* C16: a poll queues exactly one snapshot per distinct name of the kept
\* records; where two kept records have the same name, the snapshot of the
\* name carries the fields of the record that is last in the walk (its
\* counter, its speed if it has one, its hardware address), and the other
\* record is dropped without an error.
C16_LastOneWins ==
    LET p == lastPoll["router1"]
    IN  (p.called /\ ~BadCounter(p)) =>
        /\ p.outcome = "ok"
        /\ Len(p.snapshots) = Cardinality({NameOf(p, idx) : idx \in Range(p.kept)})
        /\ SnapshotNames(p) = {NameOf(p, idx) : idx \in Range(p.kept)}
        /\ \A i \in 1..Len(p.snapshots) :
            LET s == p.snapshots[i]
                last == LastNamed(p, s.name)
            IN  /\ ItemValue(s, "if_in_octets")
                      = IntV(ParseInt(RawOf(p, last, "ifInOctets")))
                /\ "if_speed" \in ItemNames(s) <=> HasVar(p, last, "ifSpeed")
                /\ "if_phys_address" \in ItemNames(s) <=> HasVar(p, last, "ifPhysAddress")
                /\ HasVar(p, last, "ifPhysAddress") =>
                      /\ ItemValue(s, "if_phys_address")
                            = StrV(HexStr(RawOf(p, last, "ifPhysAddress")))
                      /\ s.unique_name = id_base("router1") \o "-"
                                            \o HexStr(RawOf(p, last, "ifPhysAddress"))

\* Two records named eth0, the first with a speed and the address AB, the
\* second with no speed and the address CD: one snapshot, with the second
\* record's counter and address and no speed.
C16_Witness ==
    LET p == lastPoll["router1"]
    IN  /\ Polled(p)
        /\ p.kept = <<"1", "2">>
        /\ NameOf(p, "1") = "eth0" /\ NameOf(p, "2") = "eth0"
        /\ HasVar(p, "1", "ifSpeed") /\ ~HasVar(p, "2", "ifSpeed")
        /\ HwOf(p, "1").value = "AB" /\ HwOf(p, "2").value = "CD"
        /\ Len(p.snapshots) = 1
        /\ ItemValue(p.snapshots[1], "if_in_octets") = IntV(2000)
        /\ "if_speed" \notin ItemNames(p.snapshots[1])
        /\ p.snapshots[1].unique_name = id_base("router1") \o "-4344"

\* A field of a kept record of the call is cast to an integer and its raw
\* value is not one.
Malformed(p) ==
    \E v \in KeptVars(p) : IsIntegerField(v.oid) /\ ~IsIntLiteral(v.value)

\* C12: a poll() raises exactly when a numeric field of a kept record has a
\* raw value that is not an integer, and a poll() that raises queues no
\* snapshot and leaves the rate cache of the connection as it was.
C12_CastErrorPropagates ==
    [][polls' = polls + 1 =>
          /\ Malformed(lastPoll'["router1"]) <=> lastPoll'["router1"].outcome = "error"
          /\ lastPoll'["router1"].outcome = "error" =>
                /\ queue' = queue
                /\ rate_cache' = rate_cache]_vars

\* A poll raised on the second of two kept records, after a poll that had
\* filled the queue and the rate cache: both are as they were.
C12_Witness ==
    LET p == lastPoll["router1"]
    IN  /\ p.called /\ p.outcome = "error"
        /\ p.kept = <<"1", "2">>
        /\ RawOf(p, "1", "ifInOctets") = "1000" /\ RawOf(p, "2", "ifInOctets") = "x"
        /\ DOMAIN p.cache # {}
        /\ rate_cache["router1"] = p.cache
        /\ queue # <<>>
        /\ queue = prevPoll["router1"].snapshots

\* The unit of the field `key` by the first matching rule of the list of C13,
\* with the given units for packets and for bit rates.
UnitRule(key, packets, bits) ==
    CASE EndsWith(key, "Octets") \/ EndsWith(key, "Mtu") -> "bytes"
      [] EndsWith(key, "Atn") \/ EndsWith(key, "SnrMgn") -> "dB"
      [] EndsWith(key, "Pwr") -> "dBm"
      [] EndsWith(key, "Pkts") -> packets
      [] EndsWith(key, "Discards") \/ EndsWith(key, "Errors") -> "count"
      [] StartsWith(key, "adsl") /\ EndsWith(key, "Rate") -> bits
      [] EndsWith(key, "Speed") -> bits
      [] OTHER -> None

\* Every item of the snapshots of the call has the unit of the rule list with
\* the given unit names, the derived rate items the unit `rate`; the fields
\* of the walk that are not ignored all have an item.
UnitsAre(p, packets, bits, rate) ==
    /\ \A s \in Range(p.snapshots) : \A j \in 1..Len(s.items) :
          \/ \E v \in KeptVars(p) :
                /\ s.items[j].name = SnakeCase[v.oid]
                /\ s.items[j].unit_of_measurement = UnitRule(v.oid, packets, bits)
          \/ \E v \in OctetsVars(p) :
                /\ s.items[j].name = SnakeCase[v.oid \o "PS"]
                /\ s.items[j].unit_of_measurement = rate
    /\ \A v \in KeptVars(p) :
          v.oid \notin IGNORE_FIELDS =>
              \E s \in Range(p.snapshots) : SnakeCase[v.oid] \in ItemNames(s)
    /\ \A s \in Range(p.snapshots) : \A j \in 1..Len(s.items) :
          s.items[j].name = "adsl_atuc_curr_atn" => s.items[j].unit_of_measurement = "dB"

UnitOf(p, item_name) ==
    p.snapshots[1].items[CHOOSE j \in 1..Len(p.snapshots[1].items) :
                            p.snapshots[1].items[j].name = item_name].unit_of_measurement

CallsOf(call) == {i \in 1..Len(client) : client[i].call = call}

\* The calls of the constructor are in the order of C14: the will "offline",
\* retained, on the availability topic, then the connection, then "online",
\* retained, on the same topic, and nothing after it.
Announced ==
    /\ Len(client) >= 3
    /\ client[1] = [call |-> "will_set", topic |-> availability_topic,
                    payload |-> "offline", retain |-> TRUE]
    /\ CallsOf("will_set") = {1}
    /\ \E k \in 2..(Len(client) - 1) : CallsOf("connect") = {k}
    /\ CallsOf("publish") = {Len(client)}
    /\ client[Len(client)] = [call |-> "publish", topic |-> availability_topic,
                              payload |-> "online", retain |-> TRUE]

ConfigItems(p) == {i \in 1..Len(ItemsOf(p)) : MsgsOf(p, i, "/config") # {}}

\* The names of the items of the queue of the call p, in the order of
\* ItemsOf(p).
NameAt(p, i) ==
    LET visit == Visits(p.queue, Len(p.queue))[i]
    IN  p.queue[visit[1]].items[visit[2]].name

\* The publish() call of cycle number `polls` has been made.
CycleDone == lastPub.called /\ queue = <<>> /\ polls >= 1

\* From the second cycle on the call sent config messages for derived rate
\* items only, and from the third on none.
Quiescent ==
    /\ polls >= 2 => \A i \in ConfigItems(lastPub) : NameAt(lastPub, i) = "if_in_octets_ps"
    /\ polls >= 3 => ConfigItems(lastPub) = {}

\* The fields of the kept records of the call that poll() does not hide: all
\* but the fields of HIDE_IF_EMPTY whose value is 0 or empty.
Shown(p) ==
    {<<v.oid_index, v.oid>> : v \in {w \in KeptVars(p) :
        ~(w.oid \in HIDE_IF_EMPTY /\ w.value \in {"0", ""})}}

HostOf(s) == CHOOSE c \in Conns : StartsWith(s.unique_name, id_base(c))

\* The hosts of the snapshots of a queue.
HostsOf(q) == {HostOf(q[i]) : i \in 1..Len(q)}

\* The multiset of the elements of a sequence.
BagOf(seq) == [x \in Range(seq) |-> Cardinality({i \in 1..Len(seq) : seq[i] = x})]

\* The ways to cut the queue q in two parts that come from different
\* connections: the snapshots 1..k and the snapshots after k.
Cuts(q) ==
    {k \in 1..(Len(q) - 1) :
        HostsOf(SubSeq(q, 1, k)) \cap HostsOf(SubSeq(q, k + 1, Len(q))) = {}}

\* The queue q with the part after k first.
Swapped(q, k) == SubSeq(q, k + 1, Len(q)) \o SubSeq(q, 1, k)

\* The step is a poll of the connection c.
PolledNow(c) == polls' = polls + 1 /\ lastPoll'[c] # lastPoll[c]

\* The cache the latest poll of the connection c read is the one the poll of
\* c before it wrote (the empty one for a first poll), whatever polls of other
\* connections came in between.
OwnCache(c) ==
    lastPoll[c].called =>
        lastPoll[c].cache = (IF prevPoll[c].called THEN prevPoll[c].rates ELSE <<>>)

\* C17: a poll of a connection reads the rate cache its own previous poll
\* wrote and writes no cache but its own; a publish() call whose queue holds
\* the snapshots of one connection before those of another sends the same
\* multiset of messages and leaves the same discovery cache as it would with
\* the two parts in the other order.
C17_OrderIndependent ==
    /\ [](/\ \A c \in Conns : OwnCache(c)
          /\ lastPub.called =>
                \A k \in Cuts(lastPub.queue) :
                    LET other == PublishCall(PreparedItems(Swapped(lastPub.queue, k)),
                                             lastPub.disc, 0)
                    IN  /\ BagOf(other.msgs) = BagOf(lastPub.msgs)
                        /\ other.disc = lastPub.after)
    /\ [][\A c \in Conns : PolledNow(c) =>
            /\ lastPoll'[c].cache = rate_cache[c]
            /\ rate_cache'[c] = lastPoll'[c].rates
            /\ \A d \in Conns \ {c} :
                /\ rate_cache'[d] = rate_cache[d]
                /\ lastPoll'[d] = lastPoll[d]]_vars

\* Both connections were polled, one of them twice, and a publish() call sent
\* the snapshots of one after those of the other, a derived rate among them;
\* each connection has its own cache entry.
C17_Witness ==
    /\ lastPub.called
    /\ Cuts(lastPub.queue) # {}
    /\ \E c \in Conns : prevPoll[c].called
    /\ \E i \in 1..Len(ItemsOf(lastPub)) : NameAt(lastPub, i) = "if_in_octets_ps"
    /\ \A c \in Conns : lastPoll[c].called /\ DOMAIN rate_cache[c] # {}
    /\ rate_cache["router1"] # rate_cache["router2"]

\* The basenames of the items of the call p.
BasenamesOf(p) == {ItemsOf(p)[i].basename : i \in 1..Len(ItemsOf(p))}

\* C18: no step removes a basename from the discovery cache, entries being
\* added or overwritten only, also when the interfaces of a connection are in
\* no later poll; and publish() sends no retraction, a retained message with
\* an empty payload, nor any message of an item that is not in its queue.
C18_CacheOnlyGrows ==
    /\ [][DOMAIN discovery_data \subseteq DOMAIN discovery_data']_vars
    /\ [](lastPub.called =>
            /\ \A m \in 1..Len(lastPub.msgs) :
                /\ lastPub.msgs[m].retain => lastPub.msgs[m].payload # ""
                /\ \E b \in BasenamesOf(lastPub) :
                      lastPub.msgs[m].topic \in {b \o "/config", b \o "/state"}
            /\ DOMAIN lastPub.disc \subseteq DOMAIN lastPub.after
            /\ DOMAIN lastPub.after = DOMAIN lastPub.disc \cup BasenamesOf(lastPub))

\* The interfaces of router1 were published, and the latest publish() call
\* had snapshots of router2 only: the basenames of router1 are still in the
\* cache.
C18_Witness ==
    /\ lastPub.called /\ prevPub.called
    /\ "router1" \in HostsOf(prevPub.queue)
    /\ HostsOf(lastPub.queue) = {"router2"}
    /\ BasenamesOf(prevPub) \ BasenamesOf(lastPub) # {}
    /\ BasenamesOf(prevPub) \subseteq DOMAIN discovery_data
    /\ BasenamesOf(lastPub) \subseteq DOMAIN discovery_data

\* The step is a publish() call.
PublishedNow == lastPub' # lastPub \/ prevPub' # prevPub

\* C19: a publish() call visits the whole queue and, when it does not raise,
\* leaves it empty; a poll() only appends to the queue, so a snapshot is in
\* the queue of the next publish() call and, that call not raising, of no
\* later one; the messages of a call are in the order of the queue, a call
\* that does not raise sending something for every item; a publish() call on
\* an empty queue sends no message and leaves the discovery cache as it was.
C19_QueueDrained ==
    /\ [][/\ PublishedNow =>
                /\ lastPub'.queue = queue
                /\ ~lastPub'.raised => queue' = <<>>
          /\ polls' = polls + 1 =>
                /\ Len(queue') >= Len(queue)
                /\ SubSeq(queue', 1, Len(queue)) = queue]_vars
    /\ [](lastPub.called =>
            /\ \A m, n \in 1..Len(lastPub.msgs) :
                  m < n => lastPub.src[m] <= lastPub.src[n]
            /\ ~lastPub.raised =>
                  {lastPub.src[m] : m \in 1..Len(lastPub.msgs)} = 1..Len(ItemsOf(lastPub))
            /\ lastPub.queue = <<>> =>
                  /\ lastPub.msgs = <<>>
                  /\ ~lastPub.raised
                  /\ lastPub.after = lastPub.disc)

\* A publish() call on the empty queue sent nothing; then two polls queued a
\* snapshot each and a publish() call sent both and left the queue empty.
C19_Witness ==
    /\ prevPub.called /\ prevPub.queue = <<>> /\ prevPub.msgs = <<>>
    /\ lastPub.called /\ ~lastPub.raised
    /\ Len(lastPub.queue) = 2
    /\ \E m \in 1..Len(lastPub.msgs) :
          Visits(lastPub.queue, 2)[lastPub.src[m]][1] = 2
    /\ polls = 2
    /\ queue = <<>>

====
